---- MODULE Spec2Model ----
(***************************************************************************)
(* Model of sentry's API serializers for issue groups and plugins:         *)
(*   src/src/sentry/api/serializers/models/group.py                        *)
(*   src/src/sentry/api/serializers/models/plugin.py                       *)
(*                                                                         *)
(* Python values are encoded as follows.                                   *)
(*   - Optional[T]: a sequence of length <= 1 (None is <<>>, x is <<x>>).  *)
(*   - dict: a function with a finite domain; d.get(k) is Get(d, k).       *)
(*   - a call that may raise: an outcome record [kind, value, exc] with    *)
(*     kind "return" (value is the Optional return value) or "raise".      *)
(*   - a database table: a set of row records; a query is a set filter.    *)
(***************************************************************************)
EXTENDS Integers, Sequences, FiniteSets, TLC

VARIABLES
    item_list,      \* the batch handed to get_attrs: a sequence of group ids
    groups,         \* Group rows: group id -> record
    user,           \* the viewing user
    db,             \* the auxiliary stores, a record of tables
    registry,       \* plugins.for_project: project -> sequence of plugins
    plugin,         \* the plugin object handed to PluginSerializer
    result,         \* what get_attrs returned (or raised)
    output,         \* the records serialize produced so far, in batch order
    plugin_out      \* what the plugin serializer returned (or raised)

vars == <<item_list, groups, user, db, registry, plugin, result, output, plugin_out>>

inputs == <<item_list, groups, user, db, registry, plugin>>

----------------------------------------------------------------------------
(* Bounds of the model. *)

MaxGroups == 2      \* longest batch
MaxPlugins == 2     \* most plugins registered for a project
MaxCount == 3       \* largest snooze threshold / occurrence count
MaxFields == 2      \* most config fields of a plugin

GroupIds == 1 .. MaxGroups
Projects == {1, 2}
Orgs == {1, 2}
Viewer == "viewer"
OtherUser == "other"

----------------------------------------------------------------------------
(* Python encodings. *)

None == <<>>
Some(x) == <<x>>
Opt(S) == {None} \cup {Some(x) : x \in S}

\* Python truthiness of an Optional[int]: None and 0 are false.
Truthy(o) == o # None /\ o[1] # 0

\* dict.get(k) and dict.get(k, default)
Get(d, k) == IF k \in DOMAIN d THEN Some(d[k]) ELSE None
GetDefault(d, k, default) == IF k \in DOMAIN d THEN d[k] ELSE default

\* dict.update(e)
Update(d, e) == [k \in (DOMAIN d) \cup (DOMAIN e) |-> IF k \in DOMAIN e THEN e[k] ELSE d[k]]

EmptyDict == [k \in {} |-> None]

Return(v) == [kind |-> "return", value |-> v, exc |-> "-"]
Raise(e) == [kind |-> "raise", value |-> None, exc |-> e]

RECURSIVE Concat(_)
Concat(ss) == IF ss = <<>> THEN <<>> ELSE Head(ss) \o Concat(Tail(ss))

Range(s) == {s[i] : i \in DOMAIN s}

----------------------------------------------------------------------------
(* Constants of sentry.models the serializers compare against. *)

UNRESOLVED == "UNRESOLVED"
RESOLVED == "RESOLVED"
IGNORED == "IGNORED"
PENDING_DELETION == "PENDING_DELETION"
DELETION_IN_PROGRESS == "DELETION_IN_PROGRESS"
PENDING_MERGE == "PENDING_MERGE"
GroupStatus == {UNRESOLVED, RESOLVED, IGNORED, PENDING_DELETION, DELETION_IN_PROGRESS, PENDING_MERGE}

in_release == "in_release"
in_next_release == "in_next_release"

all_conversations == "all_conversations"
participating_only == "participating_only"

NotificationsKey == "workflow:notifications"

SUBSCRIPTION_REASON_MAP ==
    [r \in {"comment", "assigned", "bookmark", "status_change", "mentioned"} |->
        CASE r = "comment" -> "commented"
          [] r = "assigned" -> "assigned"
          [] r = "bookmark" -> "bookmarked"
          [] r = "status_change" -> "changed_status"
          [] r = "mentioned" -> "mentioned"]

----------------------------------------------------------------------------
(* Query accounting: one counter per auxiliary store. *)

Stores == {"bookmark", "seen", "subscription", "useroption", "assignee",
           "tagstore", "snooze", "resolution", "user", "share"}

NoQueries == [s \in Stores |-> 0]

Issue(q, s) == [q EXCEPT ![s] = @ + 1]

AddQueries(q1, q2) == [s \in Stores |-> q1[s] + q2[s]]

----------------------------------------------------------------------------
(* Collaborators outside the two source files. *)

\* serialize(user_obj, ...): the generic user serializer, reduced to the
\* identity of the user it was given.
SerializeUser(uid) == [type |-> "user", id |-> uid]

\* sentry.utils.safe.safe_execute: runs the callable, swallows an exception
\* it raises and returns None in that case.
SafeExecute(outcome) == IF outcome.kind = "raise" THEN Return(None) ELSE outcome

\* What one hook call of a plugin does for a group: a plugin is a record
\* [name, version, behaviour]; "error1" fails for group 1 only.
HookFails(p, gid) ==
    \/ p.behaviour \in {"error", "notimpl"}
    \/ p.behaviour = "error1" /\ gid = 1

HookExc(p) == IF p.behaviour = "notimpl" THEN "NotImplementedError" ELSE "Exception"

Annotation(p, gid) == <<p.name, gid>>

\* plugin.tags(request, group, tag_list): appends to tag_list and returns it.
TagsHook(p, gid, annotations) ==
    IF HookFails(p, gid) THEN Raise(HookExc(p))
    ELSE IF p.behaviour = "none" THEN Return(None)
    ELSE Return(Some(Append(annotations, Annotation(p, gid))))

\* plugin.get_annotations(group=...): returns a list, or None.
GetAnnotationsHook(p, gid) ==
    IF HookFails(p, gid) THEN Raise(HookExc(p))
    ELSE IF p.behaviour = "none" THEN Return(None)
    ELSE Return(Some(<<Annotation(p, gid)>>))

\* plugins.for_project(project=..., version=...)
ForProject(project, version) == SelectSeq(registry[project], LAMBDA p : p.version = version)

----------------------------------------------------------------------------
(* GroupSerializer._get_subscriptions  (group.py 35-92) *)

\* GroupSubscription.objects.filter(group__in=..., user=user)
SubscriptionRows(ids, u) ==
    {r \in db.subscriptions : r.group_id \in ids /\ r.user = u.id}

\* UserOption.objects.filter(Q(project__in=...) | Q(project__isnull=True),
\*                           user=user, key='workflow:notifications')
OptionRows(projectIds, u) ==
    {o \in db.options :
        /\ (o.project = None \/ o.project[1] \in projectIds)
        /\ o.user = u.id
        /\ o.key = NotificationsKey}

\* default = options.get(None, UserOptionValue.all_conversations)
DefaultPreference(options) == GetDefault(options, None, all_conversations)

\* Variant: the project's own preference is not consulted.
ProjectSubscribed_DefaultOnly(options, project) ==
    DefaultPreference(options) = all_conversations

\* options.get(project.id, default) == UserOptionValue.all_conversations
ProjectSubscribed(options, project) ==
    GetDefault(options, Some(project), DefaultPreference(options)) = all_conversations

\* results[subscription.group_id] = (subscription.is_active, subscription)
ExplicitSubscription(r) == <<r.is_active, Some(r)>>

GetSubscriptions(items, u) ==
    LET ids == Range(items)
        subscriptions == SubscriptionRows(ids, u)
        explicit == [g \in {r.group_id : r \in subscriptions} |->
                        ExplicitSubscription(CHOOSE r \in subscriptions : r.group_id = g)]
        leftover == ids \ DOMAIN explicit
        projects == [p \in {groups[g].project : g \in leftover} |->
                        {g \in leftover : groups[g].project = p}]
        rows == OptionRows(DOMAIN projects, u)
        options == [k \in {o.project : o \in rows} |->
                        (CHOOSE o \in rows : o.project = k).value]
        implicit == [g \in leftover |->
                        <<ProjectSubscribed(options, groups[g].project), None>>]
    IN  [results |-> Update(explicit, implicit),
         queries |-> IF DOMAIN projects # {}
                     THEN Issue(Issue(NoQueries, "subscription"), "useroption")
                     ELSE Issue(NoQueries, "subscription")]

----------------------------------------------------------------------------
(* GroupSerializer.get_attrs  (group.py 94-196) *)

\* Variant: the lookups run for an unauthenticated user too.
ViewerLookupsEnabled_IgnoreAuth(items, u) == items # <<>>

\* if user.is_authenticated() and item_list:
ViewerLookupsEnabled(items, u) == u.is_authenticated /\ items # <<>>

\* GroupBookmark.objects.filter(user=user, group__in=item_list)
\*     .values_list('group_id', flat=True)
Bookmarks(items, u) ==
    [value |-> {r.group_id : r \in {b \in db.bookmarks :
                                        b.user = u.id /\ b.group_id \in Range(items)}},
     queries |-> Issue(NoQueries, "bookmark")]

\* dict(GroupSeen.objects.filter(user=user, group__in=item_list)
\*          .values_list('group_id', 'last_seen'))
SeenGroups(items, u) ==
    LET rows == {r \in db.seen : r.user = u.id /\ r.group_id \in Range(items)}
    IN  [value |-> [g \in {r.group_id : r \in rows} |->
                        (CHOOSE r \in rows : r.group_id = g).last_seen],
         queries |-> Issue(NoQueries, "seen")]

\* The three per-viewer lookups, or their empty defaults.
ViewerLookups(items, u) ==
    IF ViewerLookupsEnabled(items, u)
    THEN LET b == Bookmarks(items, u)
             s == SeenGroups(items, u)
             subs == GetSubscriptions(items, u)
         IN  [bookmarks |-> b.value,
              seen_groups |-> s.value,
              subscriptions |-> subs.results,
              queries |-> AddQueries(AddQueries(b.queries, s.queries), subs.queries)]
    ELSE [bookmarks |-> {},
          seen_groups |-> EmptyDict,
          subscriptions |-> EmptyDict,
          queries |-> NoQueries]

\* subscriptions[item.id]; the unauthenticated branch holds a
\* defaultdict(lambda: (False, None)).
SubscriptionOf(lookups, gid) == GetDefault(lookups.subscriptions, gid, <<FALSE, None>>)

\* dict((a.group_id, a.user) for a in GroupAssignee.objects.filter(group__in=item_list))
Assignees(items) ==
    LET rows == {a \in db.assignees : a.group_id \in Range(items)}
    IN  [value |-> [g \in {a.group_id : a \in rows} |->
                        (CHOOSE a \in rows : a.group_id = g).user],
         queries |-> Issue(NoQueries, "assignee")]

\* tagstore.get_group_values_seen([g.id for g in item_list], 'sentry:user')
UserCounts(items) ==
    [value |-> [g \in (DOMAIN db.user_counts) \cap Range(items) |-> db.user_counts[g]],
     queries |-> Issue(NoQueries, "tagstore")]

\* {g.group_id: g for g in GroupSnooze.objects.filter(group__in=item_list)}
IgnoreItems(items) ==
    LET rows == {z \in db.snoozes : z.group_id \in Range(items)}
    IN  [value |-> [g \in {z.group_id : z \in rows} |->
                        CHOOSE z \in rows : z.group_id = g],
         queries |-> Issue(NoQueries, "snooze")]

\* {i[0]: i[1:] for i in GroupResolution.objects.filter(group__in=item_list)
\*      .values_list('group', 'type', 'release__version', 'actor_id')}
Resolutions(items) ==
    LET rows == {r \in db.resolutions : r.group \in Range(items)}
    IN  [value |-> [g \in {r.group : r \in rows} |->
                        LET r == CHOOSE r \in rows : r.group = g
                        IN  <<r.type, r.version, r.actor_id>>],
         queries |-> Issue(NoQueries, "resolution")]

\* dict(GroupShare.objects.filter(group__in=item_list).values_list('group_id', 'uuid'))
ShareIds(items) ==
    LET rows == {r \in db.shares : r.group_id \in Range(items)}
    IN  [value |-> [g \in {r.group_id : r \in rows} |->
                        (CHOOSE r \in rows : r.group_id = g).uuid],
         queries |-> Issue(NoQueries, "share")]

\* User.objects.filter(id__in=actor_ids, is_active=True)
ActorUsers(actor_ids) ==
    {w \in db.users : Some(w.id) \in actor_ids /\ w.is_active}

\* actor_ids and the actors dict built from it (lines 144-153); an actor id
\* may be None, and a set holding only None is still non-empty.
Actors(resolutions, ignore_items) ==
    LET actor_ids == {resolutions[g][3] : g \in DOMAIN resolutions}
                        \cup {ignore_items[g].actor_id : g \in DOMAIN ignore_items}
    IN  IF actor_ids # {}
        THEN [value |-> [id \in {w.id : w \in ActorUsers(actor_ids)} |-> SerializeUser(id)],
              queries |-> Issue(NoQueries, "user")]
        ELSE [value |-> EmptyDict, queries |-> NoQueries]

\* actors.get(actor_id), where actor_id may be None
ActorGet(actors, actor_id) ==
    IF actor_id = None THEN None ELSE Get(actors, actor_id[1])

\* safe_execute(hook, ..., _with_transaction=False)
CallHook(outcome) == SafeExecute(outcome)

\* for plugin in plugins.for_project(project=item.project, version=1):
\*     safe_execute(plugin.tags, None, item, annotations, ...)
RECURSIVE TagsLoop(_, _, _)
TagsLoop(ps, gid, annotations) ==
    IF ps = <<>> THEN Return(Some(annotations))
    ELSE LET r == CallHook(TagsHook(Head(ps), gid, annotations))
         IN  IF r.kind = "raise" THEN r
             ELSE TagsLoop(Tail(ps), gid, IF r.value = None THEN annotations ELSE r.value[1])

\* for plugin in plugins.for_project(project=item.project, version=2):
\*     annotations.extend(safe_execute(plugin.get_annotations, group=item, ...) or ())
RECURSIVE AnnotationsLoop(_, _, _)
AnnotationsLoop(ps, gid, annotations) ==
    IF ps = <<>> THEN Return(Some(annotations))
    ELSE LET r == CallHook(GetAnnotationsHook(Head(ps), gid))
         IN  IF r.kind = "raise" THEN r
             ELSE AnnotationsLoop(Tail(ps), gid,
                                  annotations \o (IF r.value = None THEN <<>> ELSE r.value[1]))

\* The annotations of one item (lines 163-169): an outcome.
Annotations(gid) ==
    LET v1 == TagsLoop(ForProject(groups[gid].project, 1), gid, <<>>)
    IN  IF v1.kind = "raise" THEN v1
        ELSE AnnotationsLoop(ForProject(groups[gid].project, 2), gid, v1.value[1])

\* active_date = item.active_at or item.first_seen
ActiveDate(item) == IF Truthy(item.active_at) THEN item.active_at[1] ELSE item.first_seen

\* seen_groups.get(item.id, active_date) > active_date
HasSeen(seen_groups, item) ==
    GetDefault(seen_groups, item.id, ActiveDate(item)) > ActiveDate(item)

\* Variant: the loop body looks the bookmark up once per group.
LoopQueries_PerGroup(gid) == Issue(NoQueries, "bookmark")

\* The per-item queries of the loop body (lines 160-195) on the stores: none.
LoopQueries(gid) == NoQueries

RECURSIVE SumLoopQueries(_)
SumLoopQueries(items) ==
    IF items = <<>> THEN NoQueries
    ELSE AddQueries(LoopQueries(Head(items)), SumLoopQueries(Tail(items)))

\* One entry of result (lines 171-195), given the item's annotations.
ItemAttrs(gid, annotations, lookups, assignees, user_counts, ignore_items, resolutions, actors, share_ids) ==
    LET item == groups[gid]
        resolution == Get(resolutions, gid)
        resolution_actor == IF resolution # None
                            THEN ActorGet(actors, resolution[1][3]) ELSE None
        ignore_item == Get(ignore_items, gid)
        ignore_actor == IF ignore_item # None
                        THEN ActorGet(actors, ignore_item[1].actor_id) ELSE None
        assignee == Get(assignees, gid)
    IN  [assigned_to |-> IF assignee = None THEN None ELSE Some(SerializeUser(assignee[1])),
         is_bookmarked |-> gid \in lookups.bookmarks,
         subscription |-> SubscriptionOf(lookups, gid),
         has_seen |-> HasSeen(lookups.seen_groups, item),
         annotations |-> annotations,
         user_count |-> GetDefault(user_counts, gid, 0),
         ignore_until |-> ignore_item,
         ignore_actor |-> ignore_actor,
         resolution |-> resolution,
         resolution_actor |-> resolution_actor,
         share_id |-> Get(share_ids, gid)]

\* get_attrs(item_list, user): [state, attrs, exc, queries]; state is "ok"
\* with attrs the result dict, or "raised" with the exception that escaped.
GetAttrsOf(items, u) ==
    LET lookups == ViewerLookups(items, u)
        assignees == Assignees(items)
        user_counts == UserCounts(items)
        ignore_items == IgnoreItems(items)
        resolutions == Resolutions(items)
        actors == Actors(resolutions.value, ignore_items.value)
        share_ids == ShareIds(items)
        annotated == [i \in DOMAIN items |-> Annotations(items[i])]
        failed == {i \in DOMAIN items : annotated[i].kind = "raise"}
        queries == AddQueries(lookups.queries,
                   AddQueries(assignees.queries,
                   AddQueries(user_counts.queries,
                   AddQueries(ignore_items.queries,
                   AddQueries(resolutions.queries,
                   AddQueries(actors.queries,
                   AddQueries(share_ids.queries, SumLoopQueries(items))))))))
    IN  IF failed # {}
        THEN [state |-> "raised",
              attrs |-> EmptyDict,
              exc |-> annotated[CHOOSE i \in failed : \A j \in failed : i <= j].exc,
              queries |-> queries]
        ELSE [state |-> "ok",
              attrs |-> [g \in Range(items) |->
                            ItemAttrs(g, annotated[CHOOSE i \in DOMAIN items : items[i] = g].value[1],
                                      lookups, assignees.value, user_counts.value,
                                      ignore_items.value, resolutions.value,
                                      actors.value, share_ids.value)],
              exc |-> "-",
              queries |-> queries]

----------------------------------------------------------------------------
(* GroupSerializer.serialize  (group.py 198-294) *)

\* Variant: the stored bound is echoed in every case.
IgnoreCount_NoDelta(snooze, obj) == snooze.count

\* snooze.count - (obj.times_seen - snooze.state['times_seen'])
\*     if snooze.count and not snooze.window else snooze.count
IgnoreCount(snooze, obj) ==
    IF Truthy(snooze.count) /\ ~Truthy(snooze.window)
    THEN Some(snooze.count[1] - (obj.times_seen - snooze.state["times_seen"]))
    ELSE snooze.count

\* snooze.user_count - (attrs['user_count'] - snooze.state['users_seen'])
\*     if snooze.user_count and not snooze.user_window else snooze.user_count
IgnoreUserCount(snooze, attrs) ==
    IF Truthy(snooze.user_count) /\ ~Truthy(snooze.user_window)
    THEN Some(snooze.user_count[1] - (attrs.user_count - snooze.state["users_seen"]))
    ELSE snooze.user_count

\* Variant: an invalid snooze leaves the stored status alone.
SnoozeStatus_KeepStored(obj, attrs) == obj.status

\* The status after the snooze step (lines 199-226).
SnoozeStatus(obj, attrs) ==
    IF attrs.ignore_until # None /\ ~attrs.ignore_until[1].valid
    THEN UNRESOLVED
    ELSE obj.status

\* status_details after the snooze step (lines 200-224).
SnoozeDetails(obj, attrs) ==
    IF attrs.ignore_until # None /\ attrs.ignore_until[1].valid
    THEN LET snooze == attrs.ignore_until[1]
         IN  [ignoreCount |-> IgnoreCount(snooze, obj),
              ignoreUntil |-> snooze.until,
              ignoreUserCount |-> IgnoreUserCount(snooze, attrs),
              ignoreUserWindow |-> snooze.user_window,
              ignoreWindow |-> snooze.window,
              actor |-> attrs.ignore_actor]
    ELSE EmptyDict

\* Variant: the resolve age is not consulted.
AutoResolves_Never(status, obj) == FALSE

\* if status == GroupStatus.UNRESOLVED and obj.is_over_resolve_age():
AutoResolves(status, obj) == status = UNRESOLVED /\ obj.over_resolve_age

\* Variant: an actor already in status_details is not overwritten.
ResolutionDetails_KeepActor(attrs, status_details) ==
    LET res_type == attrs.resolution[1][1]
        res_version == attrs.resolution[1][2]
        typed == IF res_type = None \/ res_type = Some(in_next_release)
                 THEN Update(status_details, [inNextRelease |-> TRUE])
                 ELSE IF res_type = Some(in_release)
                      THEN Update(status_details, [inRelease |-> res_version])
                      ELSE status_details
    IN  IF "actor" \in DOMAIN typed THEN typed
        ELSE Update(typed, [actor |-> attrs.resolution_actor])

\* The body of "if attrs['resolution']:" (lines 233-238).
ResolutionDetails(attrs, status_details) ==
    LET res_type == attrs.resolution[1][1]
        res_version == attrs.resolution[1][2]
        typed == IF res_type = None \/ res_type = Some(in_next_release)
                 THEN Update(status_details, [inNextRelease |-> TRUE])
                 ELSE IF res_type = Some(in_release)
                      THEN Update(status_details, [inRelease |-> res_version])
                      ELSE status_details
    IN  Update(typed, [actor |-> attrs.resolution_actor])

\* The label chain (lines 230-246).
StatusLabel(status) ==
    IF status = RESOLVED THEN "resolved"
    ELSE IF status = IGNORED THEN "ignored"
    ELSE IF status \in {PENDING_DELETION, DELETION_IN_PROGRESS} THEN "pending_deletion"
    ELSE IF status = PENDING_MERGE THEN "pending_merge"
    ELSE "unresolved"

\* The status derivation as a whole (lines 199-246): [status, label, details].
DeriveStatus(obj, attrs) ==
    LET s1 == SnoozeStatus(obj, attrs)
        d1 == SnoozeDetails(obj, attrs)
        auto == AutoResolves(s1, obj)
        s2 == IF auto THEN RESOLVED ELSE s1
        d2 == IF auto THEN Update(d1, [autoResolved |-> TRUE]) ELSE d1
        d3 == IF s2 = RESOLVED /\ attrs.resolution # None
              THEN ResolutionDetails(attrs, d2) ELSE d2
    IN  [status |-> s2, label |-> StatusLabel(s2), details |-> d3]

\* Variant: membership of the organization is not checked.
MayLink_AnyAuthenticated(obj, u) == u.is_authenticated

\* user.is_authenticated() and user.get_orgs().filter(id=obj.organization.id).exists()
MayLink(obj, u) == u.is_authenticated /\ obj.organization \in u.orgs

\* absolute_uri(reverse('sentry-group', args=[org.slug, project.slug, obj.id])), or None
Permalink(obj, u) ==
    IF MayLink(obj, u)
    THEN Some(<<"sentry-group", obj.organization, obj.project, obj.id>>)
    ELSE None

\* {'reason': SUBSCRIPTION_REASON_MAP.get(subscription.reason, 'unknown')}
\*     if is_subscribed and subscription is not None else None
SubscriptionDetails(subscription) ==
    IF subscription[1] /\ subscription[2] # None
    THEN Some([reason |-> GetDefault(SUBSCRIPTION_REASON_MAP, subscription[2][1].reason, "unknown")])
    ELSE None

\* serialize(obj, attrs, user): the fields the status, privacy and per-viewer
\* logic decides; the remaining fields of the record copy attributes of obj.
SerializeGroup(obj, attrs, u) ==
    LET derived == DeriveStatus(obj, attrs)
    IN  [shareId |-> attrs.share_id,
         userCount |-> attrs.user_count,
         permalink |-> Permalink(obj, u),
         status |-> derived.label,
         statusDetails |-> derived.details,
         isPublic |-> attrs.share_id # None,
         assignedTo |-> attrs.assigned_to,
         isBookmarked |-> attrs.is_bookmarked,
         isSubscribed |-> attrs.subscription[1],
         subscriptionDetails |-> SubscriptionDetails(attrs.subscription),
         hasSeen |-> attrs.has_seen,
         annotations |-> attrs.annotations]

----------------------------------------------------------------------------
(* PluginSerializer, PluginWithConfigSerializer, serialize_field  (plugin.py) *)

\* obj.get_release_doc_html(webhook_url): an outcome.
GetReleaseDocHtml(obj, webhook_url) ==
    IF obj.doc_behaviour = "notimpl" THEN Raise("NotImplementedError")
    ELSE IF obj.doc_behaviour = "error" THEN Raise("Exception")
    ELSE Return(Some(<<"doc", obj.slug, webhook_url>>))

\* Variant: the hook is called without the try statement.
DocHook_Unprotected(obj, webhook_url) == GetReleaseDocHtml(obj, webhook_url)

\* try: doc = obj.get_release_doc_html(webhook_url)
\* except NotImplementedError: pass            (lines 24-27)
\* The outcome of the try statement; a returned None means doc is left as it was.
DocHook(obj, webhook_url) ==
    LET r == GetReleaseDocHtml(obj, webhook_url)
    IN  IF r.kind = "raise" /\ r.exc = "NotImplementedError" THEN Return(None) ELSE r

\* The doc part of serialize (lines 17-27): an outcome whose value is doc.
RenderDoc(obj) ==
    IF obj.release_token # None /\ obj.has_doc_hook
    THEN LET webhook_url == <<"webhook", obj.project, obj.slug, obj.release_token[1]>>
             r == DocHook(obj, webhook_url)
         IN  IF r.kind = "raise" THEN r
             ELSE IF r.value = None THEN Return(Some(<<>>)) ELSE r
    ELSE Return(Some(<<>>))

\* PluginSerializer.serialize (lines 15-51): an outcome whose value is d.
PluginSerializeOf(obj) ==
    LET doc == RenderDoc(obj)
        base == [id |-> obj.slug,
                 canDisable |-> obj.can_disable,
                 contexts |-> obj.contexts,
                 doc |-> doc.value[1]]
    IN  IF doc.kind = "raise" THEN doc
        ELSE IF obj.project # None
             THEN Return(Some(Update(base, [enabled |-> obj.is_enabled])))
             ELSE Return(Some(base))

\* field['name'].title().replace('_', ' ')
TitleLabel(name) ==
    CASE name = "api_key" -> "Api Key"
      [] name = "url" -> "Url"
      [] OTHER -> name

\* bool(x) of the Python literals a descriptor may hold
PyBool(lit) == lit \in {"True", "1"}

\* plugin.get_option(name, project)
GetOption(obj, name) == GetDefault(obj.stored, name, None)

\* Variant: the stored value is fetched for every field type.
FetchesValue_Always(field) == TRUE

\* if field.get('type') != 'secret':
FetchesValue(field) == Get(field, "type") # Some("secret")

\* serialize_field(project, plugin, field) (lines 67-86):
\* [data, get_option_calls]
SerializeField(obj, field) ==
    LET data == [name |-> field["name"],
                 label |-> IF Get(field, "label") \notin {None, Some("")}
                           THEN field["label"] ELSE TitleLabel(field["name"]),
                 type |-> GetDefault(field, "type", "text"),
                 required |-> GetDefault(field, "required", TRUE),
                 help |-> IF Get(field, "help") \notin {None, Some("")}
                          THEN Get(field, "help") ELSE None,
                 readonly |-> GetDefault(field, "readonly", FALSE),
                 defaultValue |-> Get(field, "default"),
                 value |-> None]
    IN  IF FetchesValue(field)
        THEN [data |-> [data EXCEPT !.value = GetOption(obj, field["name"])],
              get_option_calls |-> <<field["name"]>>]
        ELSE [data |-> Update(data,
                        [has_saved_value |-> PyBool(GetDefault(field, "has_saved_value", "False")),
                         prefix |-> GetDefault(field, "prefix", "")]),
              get_option_calls |-> <<>>]

\* PluginWithConfigSerializer.serialize (lines 58-64): an outcome whose value
\* is d, with the get_option calls made on the way.
PluginWithConfigSerializeOf(obj) ==
    LET d == PluginSerializeOf(obj)
        fields == [i \in DOMAIN obj.config |-> SerializeField(obj, obj.config[i])]
    IN  IF d.kind = "raise"
        THEN [outcome |-> d, get_option_calls |-> <<>>]
        ELSE [outcome |-> Return(Some(Update(d.value[1],
                            [config |-> [i \in DOMAIN fields |-> fields[i].data]]))),
              get_option_calls |-> Concat([i \in DOMAIN fields |-> fields[i].get_option_calls])]

----------------------------------------------------------------------------
(* The operations. *)

NotRun == [state |-> "none", attrs |-> EmptyDict, exc |-> "-", queries |-> NoQueries]

PluginNotRun == [state |-> "none", serializer |-> "-", d |-> EmptyDict, exc |-> "-", get_option_calls |-> <<>>]

PluginRan(serializer, outcome, calls) ==
    IF outcome.kind = "raise"
    THEN [state |-> "raised", serializer |-> serializer, d |-> EmptyDict, exc |-> outcome.exc, get_option_calls |-> calls]
    ELSE [state |-> "ok", serializer |-> serializer, d |-> outcome.value[1], exc |-> "-", get_option_calls |-> calls]

\* GroupSerializer.get_attrs(item_list, user)
GetAttrs ==
    /\ result.state = "none"
    /\ result' = GetAttrsOf(item_list, user)
    /\ UNCHANGED <<inputs, output, plugin_out>>

\* GroupSerializer.serialize(obj, attrs[obj], user) for the next item of the
\* batch, as the serialize() driver calls it after get_attrs returned.
Serialize ==
    /\ result.state = "ok"
    /\ Len(output) < Len(item_list)
    /\ LET gid == item_list[Len(output) + 1]
       IN  output' = Append(output, SerializeGroup(groups[gid], result.attrs[gid], user))
    /\ UNCHANGED <<inputs, result, plugin_out>>

\* PluginSerializer(project).serialize(plugin, attrs, user)
PluginSerialize ==
    /\ plugin_out.state = "none"
    /\ plugin_out' = PluginRan("base", PluginSerializeOf(plugin), <<>>)
    /\ UNCHANGED <<inputs, result, output>>

\* PluginWithConfigSerializer(project).serialize(plugin, attrs, user)
PluginWithConfigSerialize ==
    /\ plugin_out.state = "none"
    /\ LET r == PluginWithConfigSerializeOf(plugin)
       IN  plugin_out' = PluginRan("config", r.outcome, r.get_option_calls)
    /\ UNCHANGED <<inputs, result, output>>

Next ==
    \/ GetAttrs
    \/ Serialize
    \/ PluginSerialize
    \/ PluginWithConfigSerialize

----------------------------------------------------------------------------
(* Initial states: the inputs of the serializers, drawn from bounded sets.  *)
(* Each family varies the inputs of one concern and fixes the others.       *)

Batch(n) == [i \in 1 .. n |-> i]

DefaultGroup(g) ==
    [id |-> g, project |-> 1, organization |-> 1, status |-> UNRESOLVED,
     times_seen |-> 1, active_at |-> None, first_seen |-> 1, over_resolve_age |-> FALSE]

Member == [is_authenticated |-> TRUE, id |-> Viewer, orgs |-> {1}]
Anonymous == [is_authenticated |-> FALSE, id |-> "anonymous", orgs |-> {}]

\* Rows that are in the stores whoever views: another user's rows, and a
\* preference of the viewer under another key.
BackgroundDb ==
    [bookmarks |-> {[user |-> OtherUser, group_id |-> 1]},
     seen |-> {[user |-> OtherUser, group_id |-> 1, last_seen |-> 9]},
     subscriptions |-> {[user |-> OtherUser, group_id |-> 1, is_active |-> FALSE, reason |-> "comment"]},
     options |-> {[user |-> OtherUser, project |-> None, key |-> NotificationsKey, value |-> participating_only],
                  [user |-> Viewer, project |-> Some(1), key |-> "mail:email", value |-> participating_only]},
     assignees |-> {},
     user_counts |-> EmptyDict,
     snoozes |-> {},
     resolutions |-> {},
     users |-> {[id |-> "alice", is_active |-> TRUE], [id |-> "bob", is_active |-> FALSE],
               [id |-> "carol", is_active |-> TRUE]},
     shares |-> {}]

NoPlugins == [p \in Projects |-> <<>>]

DefaultPlugin ==
    [slug |-> "webhooks", project |-> Some(1), release_token |-> None,
     has_doc_hook |-> FALSE, doc_behaviour |-> "ok", can_disable |-> TRUE,
     contexts |-> <<>>, is_enabled |-> TRUE, config |-> <<>>, stored |-> EmptyDict]

NothingRun ==
    /\ result = NotRun
    /\ output = <<>>
    /\ plugin_out = PluginNotRun

ActorChoices == {None, Some("alice"), Some("bob"), Some("carol")}

Snooze(g, count, window, user_count, user_window, state, actor_id, valid) ==
    [group_id |-> g, count |-> count, window |-> window, user_count |-> user_count,
     user_window |-> user_window, until |-> None, state |-> state,
     actor_id |-> actor_id, valid |-> valid]

\* The status inputs of group 1: stored status, age, snooze, resolution.
InitStatus ==
    \E n \in 1 .. MaxGroups, status \in GroupStatus, over \in BOOLEAN,
       snoozed \in {"no", "valid", "invalid"}, snooze_actor \in ActorChoices,
       resolved \in {"no", "unset", in_next_release, in_release, "other"},
       resolution_actor \in ActorChoices :
        /\ snoozed = "no" => snooze_actor = None
        /\ resolved = "no" => resolution_actor = None
        /\ item_list = Batch(n)
        /\ groups = [g \in GroupIds |->
                        IF g = 1
                        THEN [DefaultGroup(g) EXCEPT !.status = status, !.over_resolve_age = over]
                        ELSE DefaultGroup(g)]
        /\ user = Member
        /\ db = [BackgroundDb EXCEPT
                    !.snoozes = IF snoozed = "no" THEN {}
                                ELSE {Snooze(1, None, None, None, None, EmptyDict,
                                             snooze_actor, snoozed = "valid")},
                    !.resolutions = IF resolved = "no" THEN {}
                                    ELSE {[group |-> 1,
                                           type |-> IF resolved = "unset" THEN None ELSE Some(resolved),
                                           version |-> IF resolved = in_release THEN Some("1.0") ELSE None,
                                           actor_id |-> resolution_actor]}]
        /\ registry = NoPlugins
        /\ plugin = DefaultPlugin
        /\ NothingRun

\* A snooze record as the snoozing code stores it: the snapshot of a counter
\* is kept when its bound is set without a window, and a valid snooze has
\* not used its bound up.
SnoozeWorld(times_seen, count, window, snap, user_seen, user_count, user_window, user_snap) ==
    /\ item_list = Batch(1)
    /\ groups = [g \in GroupIds |->
                    IF g = 1
                    THEN [DefaultGroup(g) EXCEPT !.status = IGNORED, !.times_seen = times_seen]
                    ELSE DefaultGroup(g)]
    /\ user = Member
    /\ db = [BackgroundDb EXCEPT
                !.user_counts = IF user_seen = None THEN EmptyDict ELSE [g \in {1} |-> user_seen[1]],
                !.snoozes = {Snooze(1, count, window, user_count, user_window,
                                    [k \in (IF snap = None THEN {} ELSE {"times_seen"})
                                            \cup (IF user_snap = None THEN {} ELSE {"users_seen"}) |->
                                        IF k = "times_seen" THEN snap[1] ELSE user_snap[1]],
                                    Some("alice"), TRUE)}]
    /\ registry = NoPlugins
    /\ plugin = DefaultPlugin
    /\ NothingRun

\* Occurrence-count bounds of a valid snooze.
InitSnoozeCount ==
    \E times_seen \in 0 .. MaxCount, count \in Opt(0 .. MaxCount),
       window \in {None, Some(0), Some(1)}, snap \in Opt(0 .. MaxCount) :
        /\ (snap # None) <=> (Truthy(count) /\ ~Truthy(window))
        /\ snap # None => snap[1] <= times_seen /\ times_seen - snap[1] < count[1]
        /\ SnoozeWorld(times_seen, count, window, snap, None, None, None, None)

\* User-count bounds of a valid snooze.
InitSnoozeUsers ==
    \E user_seen \in Opt(0 .. MaxCount), user_count \in Opt(0 .. MaxCount),
       user_window \in {None, Some(0), Some(1)}, user_snap \in Opt(0 .. MaxCount) :
        /\ (user_snap # None) <=> (Truthy(user_count) /\ ~Truthy(user_window))
        /\ user_snap # None =>
              LET now == IF user_seen = None THEN 0 ELSE user_seen[1]
              IN  user_snap[1] <= now /\ now - user_snap[1] < user_count[1]
        /\ SnoozeWorld(1, None, None, None, user_seen, user_count, user_window, user_snap)

\* times_seen=5, count=10, no window, snapshot 3.
InitSnoozeExample ==
    SnoozeWorld(5, Some(10), None, Some(3), None, None, None, None)

SubscriptionChoices ==
    {None,
     Some([is_active |-> TRUE, reason |-> "comment"]),
     Some([is_active |-> FALSE, reason |-> "assigned"]),
     Some([is_active |-> TRUE, reason |-> "imported"])}

PreferenceChoices == Opt({all_conversations, participating_only})

\* Subscription records and notification preferences of an authenticated viewer.
InitSubs ==
    \E n \in 0 .. MaxGroups :
    \E project \in [1 .. n -> Projects], sub \in [1 .. n -> SubscriptionChoices],
       pref \in [Opt(Projects) -> PreferenceChoices] :
        /\ item_list = Batch(n)
        /\ groups = [g \in GroupIds |->
                        IF g <= n THEN [DefaultGroup(g) EXCEPT !.project = project[g]]
                        ELSE DefaultGroup(g)]
        /\ user = Member
        /\ db = [BackgroundDb EXCEPT
                    !.subscriptions = @ \cup
                        {[user |-> Viewer, group_id |-> g, is_active |-> sub[g][1].is_active,
                          reason |-> sub[g][1].reason] : g \in {h \in 1 .. n : sub[h] # None}},
                    !.options = @ \cup
                        {[user |-> Viewer, project |-> k, key |-> NotificationsKey,
                          value |-> pref[k][1]] : k \in {j \in Opt(Projects) : pref[j] # None}}]
        /\ registry = NoPlugins
        /\ plugin = DefaultPlugin
        /\ NothingRun

\* Who views, and the viewer's bookmarks and seen-records; some groups are
\* snoozed, resolved, assigned and shared.
InitViewer ==
    \E n \in 0 .. MaxGroups :
    \E viewer \in {Anonymous, Member, [Member EXCEPT !.orgs = {}]}, org \in Orgs,
       marked \in SUBSET (1 .. n), seen \in [1 .. n -> Opt({0, 2})], busy \in SUBSET (1 .. n) :
        /\ item_list = Batch(n)
        /\ groups = [g \in GroupIds |-> [DefaultGroup(g) EXCEPT !.organization = org]]
        /\ user = viewer
        /\ db = [BackgroundDb EXCEPT
                    !.bookmarks = @ \cup {[user |-> Viewer, group_id |-> g] : g \in marked},
                    !.seen = @ \cup {[user |-> Viewer, group_id |-> g, last_seen |-> seen[g][1]] :
                                        g \in {h \in 1 .. n : seen[h] # None}},
                    !.subscriptions = @ \cup
                        {[user |-> Viewer, group_id |-> g, is_active |-> TRUE, reason |-> "bookmark"] :
                            g \in marked},
                    !.assignees = {[group_id |-> g, user |-> "alice"] : g \in busy},
                    !.user_counts = [g \in busy |-> 1],
                    !.snoozes = {Snooze(g, None, None, None, None, EmptyDict, Some("alice"), TRUE) :
                                    g \in busy},
                    !.resolutions = {[group |-> g, type |-> None, version |-> None,
                                      actor_id |-> Some("alice")] : g \in busy},
                    !.shares = {[group_id |-> g, uuid |-> "share"] : g \in busy}]
        /\ registry = NoPlugins
        /\ plugin = DefaultPlugin
        /\ NothingRun

Behaviours == {"ok", "none", "error", "notimpl", "error1"}

\* The plugins registered for project 1 and what their hooks do, next to a
\* plugin whose doc hook fails.
InitHooks ==
    \E n \in 1 .. MaxGroups, k \in 0 .. MaxPlugins :
    \E version \in [1 .. k -> {1, 2}], behaviour \in [1 .. k -> Behaviours],
       doc \in {"notimpl", "error"} :
        /\ item_list = Batch(n)
        /\ groups = [g \in GroupIds |-> DefaultGroup(g)]
        /\ user = Member
        /\ db = BackgroundDb
        /\ registry = [p \in Projects |->
                        IF p = 1
                        THEN [i \in 1 .. k |-> [name |-> i, version |-> version[i],
                                                behaviour |-> behaviour[i]]]
                        ELSE <<>>]
        /\ plugin = [DefaultPlugin EXCEPT !.release_token = Some("token"),
                        !.has_doc_hook = TRUE, !.doc_behaviour = doc]
        /\ NothingRun

\* The plugin's release-doc capability and the project's release token.
InitPluginDoc ==
    \E project \in Opt({1}), token \in Opt({"token"}), has_hook \in BOOLEAN,
       behaviour \in {"ok", "notimpl", "error"} :
        /\ item_list = Batch(1)
        /\ groups = [g \in GroupIds |-> DefaultGroup(g)]
        /\ user = Member
        /\ db = BackgroundDb
        /\ registry = NoPlugins
        /\ plugin = [DefaultPlugin EXCEPT !.project = project, !.release_token = token,
                        !.has_doc_hook = has_hook, !.doc_behaviour = behaviour,
                        !.config = <<[name |-> "url"]>>,
                        !.stored = [k \in {"url"} |-> Some("http://hook")]]
        /\ NothingRun

FieldVariants ==
    {[name |-> "url"], [name |-> "url", type |-> "text"],
     [name |-> "api_key"], [name |-> "api_key", type |-> "text", label |-> "Key"]}
    \cup {[name |-> nm, type |-> "secret"] : nm \in {"api_key", "url"}}
    \cup {[name |-> nm, type |-> "secret", has_saved_value |-> hsv] :
            nm \in {"api_key", "url"}, hsv \in {"True", "False", "1"}}
    \cup {[name |-> nm, type |-> "secret", prefix |-> "sk_"] : nm \in {"api_key", "url"}}
    \cup {[name |-> nm, type |-> "secret", has_saved_value |-> hsv, prefix |-> "sk_"] :
            nm \in {"api_key", "url"}, hsv \in {"True", "False", "1"}}

\* The plugin's config descriptors and its stored option values.
InitPluginConfig ==
    \E k \in 0 .. MaxFields :
    \E config \in [1 .. k -> FieldVariants], secret \in Opt({"s3cret", "hunter2"}) :
        /\ item_list = Batch(1)
        /\ groups = [g \in GroupIds |-> DefaultGroup(g)]
        /\ user = Member
        /\ db = BackgroundDb
        /\ registry = NoPlugins
        /\ plugin = [DefaultPlugin EXCEPT
                        !.config = config,
                        !.stored = [nm \in {"api_key", "url"} |->
                                        IF nm = "url" THEN Some("http://hook") ELSE secret]]
        /\ NothingRun

InitStatusFamily == InitStatus \/ InitSnoozeCount \/ InitSnoozeUsers \/ InitSnoozeExample

InitViewerFamily == InitSubs \/ InitViewer

InitPluginFamily == InitHooks \/ InitPluginDoc \/ InitPluginConfig

Init == InitStatusFamily \/ InitViewerFamily \/ InitPluginFamily

Spec == Init /\ [][Next]_vars

SpecStatus == InitStatusFamily /\ [][Next]_vars

SpecViewer == InitViewerFamily /\ [][Next]_vars

SpecPlugins == InitPluginFamily /\ [][Next]_vars

----------------------------------------------------------------------------
(* Properties of the serializers. The records they speak of are read from   *)
(* the stores directly, not through the serializer's own lookups.           *)

Done == DOMAIN output

GroupAt(i) == groups[item_list[i]]

SnoozeRows(i) == {z \in db.snoozes : z.group_id = item_list[i]}

ResolutionRows(i) == {r \in db.resolutions : r.group = item_list[i]}

HasInvalidSnooze(i) == \E z \in SnoozeRows(i) : ~z.valid

HasKey(d, k) == k \in DOMAIN d

\* C1: a group whose snooze record is no longer valid is never labelled
\* "ignored", whatever its stored status and its age.
C1_InvalidSnoozeNeverIgnored ==
    \A i \in Done : HasInvalidSnooze(i) => output[i].status # "ignored"

\* C1 witness: a group stored as ignored with an invalid snooze, not over its
\* resolve age, was serialized as "unresolved".
C1_Witness ==
    \E i \in Done :
        /\ HasInvalidSnooze(i)
        /\ GroupAt(i).status = IGNORED
        /\ ~GroupAt(i).over_resolve_age
        /\ output[i].status = "unresolved"

\* The status is unresolved after the snooze step: forced by an invalid
\* snooze, or stored unresolved.
UnresolvedAfterSnooze(i) == HasInvalidSnooze(i) \/ GroupAt(i).status = UNRESOLVED

\* C2: unresolved after the snooze step and over the auto-resolve age gives
\* the label "resolved" and statusDetails.autoResolved = true.
C2_AutoResolve ==
    \A i \in Done :
        UnresolvedAfterSnooze(i) /\ GroupAt(i).over_resolve_age =>
            /\ output[i].status = "resolved"
            /\ HasKey(output[i].statusDetails, "autoResolved")
            /\ output[i].statusDetails["autoResolved"] = TRUE

\* C2 witness: a group stored as ignored, its snooze invalid, over its age,
\* came out resolved with autoResolved set.
C2_Witness ==
    \E i \in Done :
        /\ HasInvalidSnooze(i)
        /\ GroupAt(i).status = IGNORED
        /\ GroupAt(i).over_resolve_age
        /\ output[i].status = "resolved"
        /\ HasKey(output[i].statusDetails, "autoResolved")

\* A bound counts as set when it holds a non-zero number; a window of None
\* or 0 is no window.
BoundSet(bound) == bound # None /\ bound[1] # 0

NoWindow(window) == window = None \/ window[1] = 0

\* The user count the tag store holds for the group now.
CurrentUsers(i) ==
    IF item_list[i] \in DOMAIN db.user_counts THEN db.user_counts[item_list[i]] ELSE 0

\* C8: for a valid snooze, ignoreCount is the count bound minus the
\* occurrences since the snooze when the bound is set without a window and
\* the stored count otherwise; ignoreUserCount likewise with the user counts.
C8_RemainingCounts ==
    \A i \in Done : \A z \in SnoozeRows(i) :
        z.valid =>
            /\ output[i].statusDetails["ignoreCount"] =
                  IF BoundSet(z.count) /\ NoWindow(z.window)
                  THEN Some(z.count[1] - (GroupAt(i).times_seen - z.state["times_seen"]))
                  ELSE z.count
            /\ output[i].statusDetails["ignoreUserCount"] =
                  IF BoundSet(z.user_count) /\ NoWindow(z.user_window)
                  THEN Some(z.user_count[1] - (CurrentUsers(i) - z.state["users_seen"]))
                  ELSE z.user_count

\* C8 witness: times_seen=5, count=10, no window, snapshot 3 was serialized
\* with ignoreCount = 8.
C8_Witness ==
    \E i \in Done : \E z \in SnoozeRows(i) :
        /\ z.valid /\ z.count = Some(10) /\ z.window = None
        /\ z.state["times_seen"] = 3
        /\ GroupAt(i).times_seen = 5
        /\ output[i].statusDetails["ignoreCount"] = Some(8)

\* The final status is resolved: stored resolved and not reset by an invalid
\* snooze, or auto-resolved.
FinalResolved(i) ==
    \/ GroupAt(i).status = RESOLVED /\ ~HasInvalidSnooze(i)
    \/ UnresolvedAfterSnooze(i) /\ GroupAt(i).over_resolve_age

\* The release keys of statusDetails for resolution record r.
ReleaseKeys(details, r) ==
    /\ r.type \in {None, Some(in_next_release)} =>
          /\ HasKey(details, "inNextRelease") /\ details["inNextRelease"] = TRUE
          /\ ~HasKey(details, "inRelease")
    /\ r.type = Some(in_release) =>
          /\ HasKey(details, "inRelease") /\ details["inRelease"] = r.version
          /\ ~HasKey(details, "inNextRelease")
    /\ r.type \notin {None, Some(in_next_release), Some(in_release)} =>
          /\ ~HasKey(details, "inNextRelease")
          /\ ~HasKey(details, "inRelease")

\* The user who resolved, serialized (None when the record names nobody).
ResolvingActor(r) ==
    IF r.actor_id = None THEN None ELSE Some(SerializeUser(r.actor_id[1]))

IsActiveUser(actor_id) ==
    actor_id # None /\ \E w \in db.users : w.id = actor_id[1] /\ w.is_active

\* C10 as stated: a finally resolved group is labelled "resolved", and with
\* a resolution record statusDetails carries the release keys of its type and
\* the resolving actor, whoever a valid snooze had put there.
C10_ResolvingActorAttached ==
    \A i \in Done :
        FinalResolved(i) =>
            /\ output[i].status = "resolved"
            /\ \A r \in ResolutionRows(i) :
                  /\ ReleaseKeys(output[i].statusDetails, r)
                  /\ output[i].statusDetails["actor"] = ResolvingActor(r)

\* C10 amended: as stated, except that statusDetails.actor is the resolving
\* actor only when that user is an active user, and null otherwise.
C10_ActiveResolvingActorAttached ==
    \A i \in Done :
        FinalResolved(i) =>
            /\ output[i].status = "resolved"
            /\ \A r \in ResolutionRows(i) :
                  /\ ReleaseKeys(output[i].statusDetails, r)
                  /\ output[i].statusDetails["actor"] =
                        IF IsActiveUser(r.actor_id) THEN ResolvingActor(r) ELSE None

\* C10 witness: a group stored as resolved, resolved in a release by one
\* active user and validly snoozed by another, carries the resolver as actor.
C10_Witness ==
    \E i \in Done : \E r \in ResolutionRows(i) : \E z \in SnoozeRows(i) :
        /\ GroupAt(i).status = RESOLVED
        /\ z.valid /\ z.actor_id = Some("carol")
        /\ r.type = Some(in_release) /\ r.actor_id = Some("alice")
        /\ output[i].status = "resolved"
        /\ output[i].statusDetails["inRelease"] = Some("1.0")
        /\ output[i].statusDetails["actor"] = Some(SerializeUser("alice"))

\* The viewer's explicit subscription records for the i-th group.
ViewerSubscriptionRows(i) ==
    {r \in db.subscriptions : r.user = user.id /\ r.group_id = item_list[i]}

\* The viewer's stored workflow:notifications preference for a scope (a
\* project, or None for the null-project scope): a set of at most one value.
StoredPreference(scope) ==
    {o.value : o \in {x \in db.options :
                        x.user = user.id /\ x.key = NotificationsKey /\ x.project = scope}}

\* The project's own preference, else the null-project one, else all_conversations.
EffectivePreference(i) ==
    LET own == StoredPreference(Some(GroupAt(i).project))
        global == StoredPreference(None)
    IN  IF own # {} THEN CHOOSE v \in own : TRUE
        ELSE IF global # {} THEN CHOOSE v \in global : TRUE
        ELSE all_conversations

\* C3: for an authenticated viewer, isSubscribed is the is_active flag of the
\* explicit subscription record when there is one; without a record it is
\* true exactly when the effective preference is all_conversations, and
\* subscriptionDetails is null.
C3_Subscription ==
    user.is_authenticated =>
        \A i \in Done :
            IF ViewerSubscriptionRows(i) # {}
            THEN \A r \in ViewerSubscriptionRows(i) : output[i].isSubscribed = r.is_active
            ELSE /\ output[i].isSubscribed = (EffectivePreference(i) = all_conversations)
                 /\ output[i].subscriptionDetails = None

\* C3 witness: one group with an inactive record in a project whose
\* preference is all_conversations came out unsubscribed, and one group
\* without a record, its project without a preference of its own and the
\* null-project preference an opt-out, came out unsubscribed too.
C3_Witness ==
    /\ user.is_authenticated
    /\ \E i \in Done :
          /\ \E r \in ViewerSubscriptionRows(i) : ~r.is_active
          /\ StoredPreference(Some(GroupAt(i).project)) = {all_conversations}
          /\ ~output[i].isSubscribed
    /\ \E j \in Done :
          /\ ViewerSubscriptionRows(j) = {}
          /\ StoredPreference(Some(GroupAt(j).project)) = {}
          /\ StoredPreference(None) = {participating_only}
          /\ ~output[j].isSubscribed
          /\ output[j].subscriptionDetails = None

ViewerStores == {"bookmark", "seen", "subscription", "useroption"}

\* C4: for an anonymous viewer get_attrs queries none of the bookmark,
\* seen-record, subscription and user-preference stores, and every group is
\* serialized with isBookmarked, isSubscribed and hasSeen false.
C4_AnonymousFastPath ==
    ~user.is_authenticated =>
        /\ \A s \in ViewerStores : result.queries[s] = 0
        /\ \A i \in Done :
              /\ ~output[i].isBookmarked
              /\ ~output[i].isSubscribed
              /\ ~output[i].hasSeen

\* C4 witness: an anonymous viewer's non-empty batch went through get_attrs
\* (the unconditional lookups were issued) and was serialized whole.
C4_Witness ==
    /\ ~user.is_authenticated
    /\ result.state = "ok"
    /\ result.queries["assignee"] = 1
    /\ item_list # <<>>
    /\ Len(output) = Len(item_list)

ListedStores == {"bookmark", "seen", "subscription", "assignee", "snooze",
                 "resolution", "share", "tagstore", "user"}

\* C5: one call of get_attrs queries each of the listed stores at most once,
\* whatever the size of the batch.
C5_BatchedLookups ==
    \A s \in ListedStores : result.queries[s] <= 1

\* C5 witness: get_attrs returned for an authenticated viewer's batch of at
\* least two groups, having queried each listed store exactly once.
C5_Witness ==
    /\ result.state = "ok"
    /\ user.is_authenticated
    /\ Len(item_list) >= 2
    /\ \A s \in ListedStores : result.queries[s] = 1

\* C9: a permalink is only given to an authenticated member of the group's
\* organization.
C9_PermalinkPrivacy ==
    \A i \in Done :
        output[i].permalink # None =>
            user.is_authenticated /\ GroupAt(i).organization \in user.orgs

\* C9 witness: an authenticated viewer who is not a member of the group's
\* organization got a null permalink.
C9_Witness ==
    \E i \in Done :
        /\ user.is_authenticated
        /\ GroupAt(i).organization \notin user.orgs
        /\ output[i].permalink = None

\* What a hook that does not fail contributes for a group: its annotation,
\* or nothing when it returns None; a failing hook contributes nothing.
Contribution(p, gid) ==
    IF p.behaviour = "ok" \/ (p.behaviour = "error1" /\ gid # 1)
    THEN <<Annotation(p, gid)>>
    ELSE <<>>

\* The annotations of a group when every hook is called and a failing hook
\* adds nothing: the version-1 plugins in order, then the version-2 ones.
ExpectedAnnotations(gid) ==
    LET ps == registry[groups[gid].project]
        v1 == SelectSeq(ps, LAMBDA p : p.version = 1)
        v2 == SelectSeq(ps, LAMBDA p : p.version = 2)
    IN  Concat([i \in DOMAIN v1 |-> Contribution(v1[i], gid)])
            \o Concat([i \in DOMAIN v2 |-> Contribution(v2[i], gid)])

AnnotationHooksIsolated ==
    /\ result.state # "raised"
    /\ result.state = "ok" =>
          \A gid \in Range(item_list) :
              result.attrs[gid].annotations = ExpectedAnnotations(gid)

\* serialize calls get_release_doc_html: there is a release token and the
\* plugin has the hook.
DocHookCalled == plugin.release_token # None /\ plugin.has_doc_hook

SecretFields ==
    {i \in DOMAIN plugin.config :
        HasKey(plugin.config[i], "type") /\ plugin.config[i]["type"] = "secret"}

\* Every content the option store could hold instead.
OtherStored == [{"api_key", "url"} -> Opt({"s3cret", "hunter2", "http://hook"})]

\* C7: the entry of a secret-typed field is the same whatever the option
\* store holds, its value is null, get_option is called for the other fields
\* only, and it carries has_saved_value (a boolean, default false) and prefix
\* (default empty).
C7_SecretNeverExposed ==
    plugin_out.state = "ok" /\ plugin_out.serializer = "config" =>
        /\ Len(plugin_out.get_option_calls) = Cardinality((DOMAIN plugin.config) \ SecretFields)
        /\ \A i \in SecretFields :
              LET field == plugin.config[i]
                  entry == plugin_out.d["config"][i]
              IN  /\ entry["value"] = None
                  /\ \A stored \in OtherStored :
                        SerializeField([plugin EXCEPT !.stored = stored], field).data = entry
                  /\ entry["has_saved_value"] \in BOOLEAN
                  /\ entry["has_saved_value"] =
                        (HasKey(field, "has_saved_value") /\ field["has_saved_value"] \in {"True", "1"})
                  /\ entry["prefix"] = IF HasKey(field, "prefix") THEN field["prefix"] ELSE ""

\* C7 witness: a secret field api_key with a saved value was serialized while
\* the store held "s3cret" for it: has_saved_value is true and value is null.
C7_Witness ==
    /\ plugin_out.state = "ok"
    /\ plugin_out.serializer = "config"
    /\ \E i \in SecretFields :
          /\ plugin.config[i]["name"] = "api_key"
          /\ HasKey(plugin.config[i], "has_saved_value")
          /\ plugin.config[i]["has_saved_value"] = "True"
          /\ plugin.stored["api_key"] = Some("s3cret")
          /\ plugin_out.d["config"][i]["has_saved_value"] = TRUE
          /\ plugin_out.d["config"][i]["value"] = None

====
